---- MODULE Spec2Model ----
(***************************************************************************)
(* Model of the audience classifier and the engagement ranking of          *)
(* src/backend/ig_scraper.py (class InstagramScraper) and of the audience  *)
(* matcher of src/backend/app/database.py.                                 *)
(*                                                                         *)
(* Text is a sequence of characters.  A character outside ASCII is written *)
(* "uXXXX" (its code point), an ASCII character as itself; the trailing    *)
(* comment of each table row gives the source string.                      *)
(***************************************************************************)
EXTENDS Integers, Sequences, FiniteSets, TLC

VARIABLES
    comments,   \* the argument of _analyze_comments
    profile,    \* the dictionary _analyze_comments returned
    cpc,        \* position of the classifier's caller: "input" | "done"
    page,       \* what the reel page yields to _extract_reel_data
    min_engagement, \* the threshold given to search_reels_by_keyword
    reel_data,  \* the reel_data dictionary of the link (a function from its keys)
    reels_data, \* the list of the reels kept so far
    db,         \* the reels table: reel_id -> row
    rpc,        \* position in search_reels_by_keyword
    unique_links, \* the pages behind the links the search found
    links,      \* the links the loop has yet to visit
    top_count,  \* the top_count given to search_reels_by_keyword
    mock_mode,  \* self.mock_mode
    ci,         \* os.getenv('CI') == 'true'
    result,     \* what search_reels_by_keyword returned
    clock,      \* CURRENT_TIMESTAMP of the database
    target,     \* the target given to get_reels_by_audience
    limit,      \* the limit given to get_reels_by_audience
    matched,    \* what get_reels_by_audience returned
    mpc,        \* position of the matcher's caller: "fill" | "returned"
    ret,        \* what the last call on the store returned or raised
    tasks,      \* the concurrent callers of _analyze_comments: task -> frame
    script_reels, \* the reels given to generate_scripts_from_reels
    scripts,    \* what the script generation returned or raised
    keywords_table, \* the keywords table: a list of rows
    calls       \* the calls of extract_and_save_keywords made so far

vars == <<comments, profile, cpc, page, min_engagement, reel_data, reels_data,
          db, rpc, unique_links, links, top_count, mock_mode, ci, result, clock,
          target, limit, matched, mpc, ret, tasks, script_reels, scripts,
          keywords_table, calls>>

classifierVars == <<comments, profile, cpc>>
matcherVars == <<target, limit, matched, mpc>>
searchArgs == <<min_engagement, unique_links, top_count, mock_mode, ci>>
searchVars == <<page, reel_data, reels_data, rpc, links, result, searchArgs>>
scriptVars == <<script_reels, scripts>>
keywordVars == <<keywords_table, calls>>
appVars == <<ret, tasks, scriptVars, keywordVars>>

\* ------------------------------------------------------------------ bounds

\* longest comment list given to the classifier
MaxComments == 2

\* counts 0..MaxCount are scraped from a page, besides the values of ExtraCounts
MaxCount == 2

\* most links a search finds
MaxLinks == 3

\* largest top_count a caller passes
MaxTop == 2

\* most calls of insert_reel before the matcher is asked
MaxInserts == 3

\* ------------------------------------------------------- marker tables

age_patterns ==
  <<
    [label |-> "13-17", markers |-> <<
        <<"u5B66", "u751F">>,                                          \* 学生
        <<"u9AD8", "u6821">>,                                          \* 高校
        <<"u4E2D", "u5B66">>,                                          \* 中学
        <<"j", "k">>,                                                  \* jk
        <<"u5BBF", "u984C">>,                                          \* 宿題
        <<"u6388", "u696D">>                                           \* 授業
    >>],
    [label |-> "18-24", markers |-> <<
        <<"u5927", "u5B66">>,                                          \* 大学
        <<"u5927", "u5B66", "u751F">>,                                 \* 大学生
        <<"u5C31", "u6D3B">>,                                          \* 就活
        <<"u30D0", "u30A4", "u30C8">>,                                 \* バイト
        <<"u5352", "u8AD6">>,                                          \* 卒論
        <<"u7814", "u7A76", "u5BA4">>                                  \* 研究室
    >>],
    [label |-> "25-34", markers |-> <<
        <<"u793E", "u4F1A", "u4EBA">>,                                 \* 社会人
        <<"u8EE2", "u8077">>,                                          \* 転職
        <<"u7D50", "u5A5A">>,                                          \* 結婚
        <<"u80B2", "u5150">>,                                          \* 育児
        <<"u4ED5", "u4E8B">>,                                          \* 仕事
        <<"u30DE", "u30DE">>,                                          \* ママ
        <<"u5B50", "u80B2", "u3066">>                                  \* 子育て
    >>],
    [label |-> "35-44", markers |-> <<
        <<"u5B50", "u4F9B">>,                                          \* 子供
        <<"u30DE", "u30DE">>,                                          \* ママ
        <<"u30D1", "u30D1">>,                                          \* パパ
        <<"u5BB6", "u65CF">>,                                          \* 家族
        <<"u4F4F", "u5B85">>,                                          \* 住宅
        <<"u30ED", "u30FC", "u30F3">>,                                 \* ローン
        <<"u4E2D", "u5E74">>                                           \* 中年
    >>],
    [label |-> "45+", markers |-> <<
        <<"u5B9A", "u5E74">>,                                          \* 定年
        <<"u8001", "u5F8C">>,                                          \* 老後
        <<"u5E74", "u91D1">>,                                          \* 年金
        <<"u5B6B">>,                                                   \* 孫
        <<"u9000", "u8077">>,                                          \* 退職
        <<"u30B7", "u30CB", "u30A2">>                                  \* シニア
    >>]
  >>

gender_patterns ==
  <<
    [label |-> "female", markers |-> <<
        <<"u5973", "u5B50">>,                                          \* 女子
        <<"u5973", "u6027">>,                                          \* 女性
        <<"u30DE", "u30DE">>,                                          \* ママ
        <<"u5F7C", "u6C0F">>,                                          \* 彼氏
        <<"u30E1", "u30A4", "u30AF">>,                                 \* メイク
        <<"u30B3", "u30B9", "u30E1">>,                                 \* コスメ
        <<"u5316", "u7CA7">>                                           \* 化粧
    >>],
    [label |-> "male", markers |-> <<
        <<"u7537", "u5B50">>,                                          \* 男子
        <<"u7537", "u6027">>,                                          \* 男性
        <<"u30D1", "u30D1">>,                                          \* パパ
        <<"u5F7C", "u5973">>,                                          \* 彼女
        <<"u7B4B", "u30C8", "u30EC">>,                                 \* 筋トレ
        <<"u30B2", "u30FC", "u30E0">>                                  \* ゲーム
    >>]
  >>

interest_patterns ==
  <<
    [label |-> "beauty", markers |-> <<
        <<"u30E1", "u30A4", "u30AF">>,                                 \* メイク
        <<"u30B3", "u30B9", "u30E1">>,                                 \* コスメ
        <<"u7F8E", "u5BB9">>,                                          \* 美容
        <<"u30B9", "u30AD", "u30F3", "u30B1", "u30A2">>,               \* スキンケア
        <<"u5316", "u7CA7">>                                           \* 化粧
    >>],
    [label |-> "fashion", markers |-> <<
        <<"u30D5", "u30A1", "u30C3", "u30B7", "u30E7", "u30F3">>,      \* ファッション
        <<"u30B3", "u30FC", "u30C7">>,                                 \* コーデ
        <<"u670D">>,                                                   \* 服
        <<"u30D6", "u30E9", "u30F3", "u30C9">>,                        \* ブランド
        <<"u30A2", "u30D1", "u30EC", "u30EB">>                         \* アパレル
    >>],
    [label |-> "food", markers |-> <<
        <<"u6599", "u7406">>,                                          \* 料理
        <<"u30EC", "u30B7", "u30D4">>,                                 \* レシピ
        <<"u30B0", "u30EB", "u30E1">>,                                 \* グルメ
        <<"u98DF", "u3079", "u7269">>,                                 \* 食べ物
        <<"u30EC", "u30B9", "u30C8", "u30E9", "u30F3">>,               \* レストラン
        <<"u30AB", "u30D5", "u30A7">>                                  \* カフェ
    >>],
    [label |-> "travel", markers |-> <<
        <<"u65C5", "u884C">>,                                          \* 旅行
        <<"u89B3", "u5149">>,                                          \* 観光
        <<"u6D77", "u5916">>,                                          \* 海外
        <<"u30DB", "u30C6", "u30EB">>,                                 \* ホテル
        <<"u65C5">>                                                    \* 旅
    >>],
    [label |-> "fitness", markers |-> <<
        <<"u7B4B", "u30C8", "u30EC">>,                                 \* 筋トレ
        <<"u30B8", "u30E0">>,                                          \* ジム
        <<"u30C8", "u30EC", "u30FC", "u30CB", "u30F3", "u30B0">>,      \* トレーニング
        <<"u30C0", "u30A4", "u30A8", "u30C3", "u30C8">>,               \* ダイエット
        <<"u904B", "u52D5">>                                           \* 運動
    >>],
    [label |-> "tech", markers |-> <<
        <<"u30C6", "u30AF", "u30CE", "u30ED", "u30B8", "u30FC">>,      \* テクノロジー
        <<"u30AC", "u30B8", "u30A7", "u30C3", "u30C8">>,               \* ガジェット
        <<"u30A2", "u30D7", "u30EA">>,                                 \* アプリ
        <<"u30D7", "u30ED", "u30B0", "u30E9", "u30DF", "u30F3", "u30B0">>, \* プログラミング
        <<"I", "T">>                                                   \* IT
    >>],
    [label |-> "education", markers |-> <<
        <<"u52C9", "u5F37">>,                                          \* 勉強
        <<"u5B66", "u7FD2">>,                                          \* 学習
        <<"u6559", "u80B2">>,                                          \* 教育
        <<"u53D7", "u9A13">>,                                          \* 受験
        <<"u8CC7", "u683C">>                                           \* 資格
    >>],
    [label |-> "business", markers |-> <<
        <<"u30D3", "u30B8", "u30CD", "u30B9">>,                        \* ビジネス
        <<"u8D77", "u696D">>,                                          \* 起業
        <<"u6295", "u8CC7">>,                                          \* 投資
        <<"u526F", "u696D">>,                                          \* 副業
        <<"u30DE", "u30FC", "u30B1", "u30C6", "u30A3", "u30F3", "u30B0">> \* マーケティング
    >>],
    [label |-> "entertainment", markers |-> <<
        <<"u30A8", "u30F3", "u30BF", "u30E1">>,                        \* エンタメ
        <<"u6620", "u753B">>,                                          \* 映画
        <<"u30C9", "u30E9", "u30DE">>,                                 \* ドラマ
        <<"u97F3", "u697D">>,                                          \* 音楽
        <<"u30A2", "u30CB", "u30E1">>                                  \* アニメ
    >>],
    [label |-> "gaming", markers |-> <<
        <<"u30B2", "u30FC", "u30E0">>,                                 \* ゲーム
        <<"u30B2", "u30FC", "u30DE", "u30FC">>,                        \* ゲーマー
        <<"P", "S", "5">>,                                             \* PS5
        <<"S", "w", "i", "t", "c", "h">>,                              \* Switch
        <<"e", "u30B9", "u30DD", "u30FC", "u30C4">>                    \* eスポーツ
    >>]
  >>
CommentPool ==
  <<
    <<>>,  \* "": an empty comment
    <<"u5B9A", "u5E74", " ", "u5B9A", "u5E74", " ", "u5B9A", "u5E74">>,  \* "定年 定年 定年": one 45+ marker, three occurrences
    <<"u5B66", "u751F">>,  \* "学生": one 13-17 marker
    <<"u5927", "u5B66", "u751F">>,  \* "大学生": two 18-24 markers, and the 13-17 marker inside it
    <<"u5927">>,  \* "大": first half of an 18-24 marker
    <<"u30DE", "u30DE">>,  \* "ママ": a marker of 25-34, 35-44 and female
    <<"u30D1", "u30D1", " ", "u30B2", "u30FC", "u30E0">>,  \* "パパ ゲーム": 35-44, two male markers, gaming
    <<"u5F7C", "u5973">>,  \* "彼女": one male marker
    <<"u670D", " ", "u65C5", "u884C", " ", "u30B8", "u30E0", " ", "u6620", "u753B">>,  \* "服 旅行 ジム 映画": four interest categories, travel twice
    <<"I", "T", " ", "S", "w", "i", "t", "c", "h", " ", "u3059", "u3054", "u3044", "u3000", "n", "i", "c", "e", " ", "N", "I", "C", "E", " ", "u3059", "u3054", "u3044", " ", "N", "i", "c", "e">>,  \* "IT Switch すごい　nice NICE すごい Nice": upper-case markers, ideographic space, repeated tokens
    <<"a", "a", "a", " ", "b", "b", "b", " ", "c", "c", "c", " ", "d", "d", "d", " ", "e", "e", "e", " ", "f", "f", "f", " ", "g", "g", "g", " ", "h", "h", "h", " ", "i", "i", "i", " ", "j", "j", "j", " ", "k", "k", "k">>   \* "aaa bbb ccc ddd eee fff ggg hhh iii jjj kkk": eleven distinct long tokens
  >>

\* ------------------------------------------------------------ text helpers

Min(a, b) == IF a <= b THEN a ELSE b

UpperCase == <<"A", "B", "C", "D", "E", "F", "G", "H", "I", "J", "K", "L", "M",
               "N", "O", "P", "Q", "R", "S", "T", "U", "V", "W", "X", "Y", "Z">>
LowerCase == <<"a", "b", "c", "d", "e", "f", "g", "h", "i", "j", "k", "l", "m",
               "n", "o", "p", "q", "r", "s", "t", "u", "v", "w", "x", "y", "z">>

\* str.lower() on one character
LowerChar(c) ==
    IF \E i \in 1..Len(UpperCase) : UpperCase[i] = c
    THEN LowerCase[CHOOSE i \in 1..Len(UpperCase) : UpperCase[i] = c]
    ELSE c

\* str.lower()
Lower(text) == [i \in 1..Len(text) |-> LowerChar(text[i])]

\* ' '.join(comments)
RECURSIVE Join(_)
Join(cs) ==
    IF cs = <<>> THEN <<>>
    ELSE IF Len(cs) = 1 THEN cs[1]
    ELSE cs[1] \o <<" ">> \o Join(Tail(cs))

\* the characters str.split() separates on: space, newline, ideographic space
WhiteSpace == {" ", "u000A", "u3000"}

\* str.split(): the maximal runs of non-whitespace characters, left to right
Split(text) ==
    LET starts == {i \in 1..Len(text) :
                      /\ text[i] \notin WhiteSpace
                      /\ (i = 1 \/ text[i - 1] \in WhiteSpace)}
        end(i) == CHOOSE j \in i..Len(text) :
                      /\ \A m \in i..j : text[m] \notin WhiteSpace
                      /\ (j = Len(text) \/ text[j + 1] \in WhiteSpace)
        start(k) == CHOOSE i \in starts : Cardinality({j \in starts : j < i}) = k - 1
    IN [k \in 1..Cardinality(starts) |-> SubSeq(text, start(k), end(start(k)))]

\* keyword in all_text
Contains(text, keyword) ==
    \E i \in 1..(Len(text) - Len(keyword) + 1) :
        SubSeq(text, i, i + Len(keyword) - 1) = keyword

\* the number of (possibly overlapping) occurrences of keyword in text
Occurrences(text, keyword) ==
    Cardinality({i \in 1..(Len(text) - Len(keyword) + 1) :
                    SubSeq(text, i, i + Len(keyword) - 1) = keyword})

\* a scoring that adds one per occurrence instead of one per marker
MarkerScoreMut(keywords, text) ==
    LET RECURSIVE Sum(_)
        Sum(k) == IF k = 0 THEN 0 ELSE Sum(k - 1) + Occurrences(text, keywords[k])
    IN Sum(Len(keywords))

\* for keyword in keywords: if keyword in all_text: scores[x] += 1
MarkerScore(keywords, text) ==
    Cardinality({k \in 1..Len(keywords) : Contains(text, keywords[k])})

\* {x: 0 for x in patterns} followed by the scoring loops: the items of the
\* score dictionary, in the declaration order of the table
Scores(patterns, text) ==
    [i \in 1..Len(patterns) |->
        <<patterns[i].label, MarkerScore(patterns[i].markers, text)>>]

\* max(scores.values())
MaxValue(items) ==
    CHOOSE v \in {items[i][2] : i \in 1..Len(items)} :
        \A i \in 1..Len(items) : items[i][2] <= v

\* max(scores.items(), key=lambda x: x[1]): the first item of maximal value
MaxItem(items) ==
    items[CHOOSE i \in 1..Len(items) :
            /\ items[i][2] = MaxValue(items)
            /\ \A j \in 1..(i - 1) : items[j][2] < MaxValue(items)]

\* a slice that does not truncate
TakeMut(s, n) == s

\* s[:n]
Take(s, n) == SubSeq(s, 1, Min(n, Len(s)))

\* the position x takes in a list sorted by descending x[1]: after every item
\* whose key is not smaller
InsertDesc(sorted, x) ==
    LET before == {i \in 1..Len(sorted) : sorted[i][2] >= x[2]}
        n == Cardinality(before)
    IN SubSeq(sorted, 1, n) \o <<x>> \o SubSeq(sorted, n + 1, Len(sorted))

\* a sort that leaves the items in the order given
SortedReverseMut(items) == items

\* sorted(items, key=lambda x: x[1], reverse=True): stable, descending
RECURSIVE SortedReverse(_)
SortedReverse(items) ==
    IF items = <<>> THEN <<>>
    ELSE InsertDesc(SortedReverse(SubSeq(items, 1, Len(items) - 1)), items[Len(items)])

\* [name for name, value in items if value > Floor]
RECURSIVE NamesAbove(_, _)
NamesAbove(items, floor) ==
    IF items = <<>> THEN <<>>
    ELSE (IF Head(items)[2] > floor THEN <<Head(items)[1]>> ELSE <<>>)
         \o NamesAbove(Tail(items), floor)

\* ------------------------------------------------------------ the classifier

\* a default bracket that is no label of the system
DefaultAgeMut == "general"

\* age = '18-34'  # Default
DefaultAge == "18-34"

\* gender = 'unknown'
DefaultGender == "unknown"

\* the [:3] of top_interests
TopInterests == 3

\* the [:10] of top_keywords
TopKeywords == 10

\* if len(word) > 2
MinWordLen == 2

\* a profile for the empty list that carries the non-empty defaults
EmptyProfileMut ==
    [age |-> DefaultAge, gender |-> DefaultGender, interests |-> <<>>, keywords |-> <<>>]

\* the dictionary returned under `if not comments`
EmptyProfile ==
    [age |-> "unknown", gender |-> "unknown", interests |-> <<>>, keywords |-> <<>>]

\* a text read from the comments only while the reels table is empty: a
\* classifier whose answer depends on the state of the store
AllTextMut(cs) == IF DOMAIN db = {} THEN Lower(Join(cs)) ELSE <<>>

\* all_text = ' '.join(comments).lower()
AllText(cs) == Lower(Join(cs))

\* the age chosen from age_scores
Age(all_text) ==
    LET age_scores == Scores(age_patterns, all_text)
    IN IF MaxValue(age_scores) > 0 THEN MaxItem(age_scores)[1] ELSE DefaultAge

\* the gender chosen from gender_scores
Gender(all_text) ==
    LET gender_scores == Scores(gender_patterns, all_text)
    IN IF MaxValue(gender_scores) > 0 THEN MaxItem(gender_scores)[1] ELSE DefaultGender

\* top_interests
Interests(all_text) ==
    Take(NamesAbove(SortedReverse(Scores(interest_patterns, all_text)), 0), TopInterests)

\* a word count that also counts the short words
WordFreqMut(words) ==
    LET firsts == {p \in 1..Len(words) : \A q \in 1..(p - 1) : words[q] # words[p]}
        key(k) == words[CHOOSE p \in firsts : Cardinality({q \in firsts : q < p}) = k - 1]
    IN [k \in 1..Cardinality(firsts) |->
           <<key(k), Cardinality({p \in 1..Len(words) : words[p] = key(k)})>>]

\* word_freq after the loop over words: its items in insertion order, that
\* is one item for each word longer than MinWordLen, placed by the first
\* occurrence of the word and valued by the number of its occurrences
WordFreq(words) ==
    LET long == {p \in 1..Len(words) : Len(words[p]) > MinWordLen}
        firsts == {p \in long : \A q \in 1..(p - 1) : words[q] # words[p]}
        key(k) == words[CHOOSE p \in firsts : Cardinality({q \in firsts : q < p}) = k - 1]
    IN [k \in 1..Cardinality(firsts) |->
           <<key(k), Cardinality({p \in 1..Len(words) : words[p] = key(k)})>>]

\* top_keywords
Keywords(all_text) ==
    Take(NamesAbove(SortedReverse(WordFreq(Split(all_text))), 1), TopKeywords)

_analyze_comments(cs) ==
    IF cs = <<>>
    THEN EmptyProfile
    ELSE LET all_text == AllText(cs)
         IN [age       |-> Age(all_text),
             gender    |-> Gender(all_text),
             interests |-> Interests(all_text),
             keywords  |-> Keywords(all_text)]


\* ------------------------------------------------------ engagement scoring

\* A Python number is modelled by the exact fraction num/den in lowest terms,
\* den > 0.  Float division is correctly rounded and monotone, so over the
\* small counts used here two floats are equal (ordered) exactly when the
\* fractions are.

RECURSIVE GCD(_, _)
GCD(a, b) == IF b = 0 THEN a ELSE GCD(b, a % b)

Abs(a) == IF a < 0 THEN -a ELSE a

Num(n) == [num |-> n, den |-> 1]

\* raised by a / b when b == 0
ZeroDivisionError == [error |-> "ZeroDivisionError"]

\* a / b on two integers
TrueDiv(a, b) ==
    IF b = 0 THEN ZeroDivisionError
    ELSE LET g == GCD(Abs(a), Abs(b))
             s == IF b < 0 THEN -1 ELSE 1
         IN [num |-> s * (a \div g), den |-> s * (b \div g)]

\* the evaluation of x raised
Raises(x) == "error" \in DOMAIN x

\* x * k on a number x and an integer k
Times(x, k) ==
    IF Raises(x) THEN x
    ELSE TrueDiv(x.num * k, x.den)

\* the metrics of the `except` branch after a failed page.evaluate
FailedMetrics == [likeCount |-> 0, commentCount |-> 0, viewCount |-> 0, followerCount |-> 0]

\* d.get(key, default)
Get(d, key, default) == IF key \in DOMAIN d THEN d[key] ELSE default

\* an engagement rate whose guard lets view_count == 0 through
EngagementRateMut(like_count, comment_count, view_count) ==
    Times(TrueDiv(like_count + comment_count, view_count), 100)

\* a rate that leaves the comments out
EngagementRateNoComments(like_count, comment_count, view_count) ==
    IF view_count > 0
    THEN Times(TrueDiv(like_count, view_count), 100)
    ELSE Num(0)

\* reel_data['engagement_rate'] of _extract_reel_data
EngagementRate(like_count, comment_count, view_count) ==
    IF view_count > 0
    THEN Times(TrueDiv(like_count + comment_count, view_count), 100)
    ELSE Num(0)

\* reel_data['views_followers_ratio'] of _extract_reel_data
ExtractedRatio(view_count, ownerFollowersCount) ==
    IF ownerFollowersCount > 0
    THEN TrueDiv(view_count, ownerFollowersCount)
    ELSE Num(0)

\* the reel ids of the links, by position in unique_links
ReelIds == <<"r1", "r2", "r3", "r4", "r5", "r6">>

\* the links themselves: reel_url, with reel_url.split('/reel/')[1] its id
ReelLinks == <<"/reel/r1/", "/reel/r2/", "/reel/r3/", "/reel/r4/", "/reel/r5/", "/reel/r6/">>

\* the link whose reel id is `id`
Permalink(id) == ReelLinks[CHOOSE k \in 1..Len(ReelIds) : ReelIds[k] = id]

\* None, and NULL in a column of the reels table
Null == "NULL"

\* the dictionary _extract_reel_data returns for a page; scraped_at is
\* datetime.now(), the reading p.now of the wall clock at that moment, in
\* days since the call of search_reels_by_keyword began
_extract_reel_data(p) ==
    IF ~p.nav_ok
    THEN [reel_id |-> p.reel_id, permalink |-> Permalink(p.reel_id),
          like_count |-> 0, comment_count |-> 0,
          view_count |-> 0, scraped_at |-> p.now]
    ELSE LET metrics == IF p.metrics_ok
                        THEN [likeCount |-> p.likeCount, commentCount |-> p.commentCount,
                              viewCount |-> p.viewCount, followerCount |-> p.followerCount]
                        ELSE FailedMetrics
         IN [reel_id               |-> p.reel_id,
             permalink             |-> Permalink(p.reel_id),
             audio_url             |-> Null,
             like_count            |-> metrics.likeCount,
             comment_count         |-> metrics.commentCount,
             view_count            |-> metrics.viewCount,
             ownerFollowersCount   |-> metrics.followerCount,
             scraped_at            |-> p.now,
             engagement_rate       |-> EngagementRate(metrics.likeCount,
                                           metrics.commentCount, metrics.viewCount),
             views_followers_ratio |-> ExtractedRatio(metrics.viewCount,
                                           metrics.followerCount)]

\* max(1, n)
Max1(n) == IF n >= 1 THEN n ELSE 1

\* the follower count the loop of search_reels_by_keyword falls back to
DefaultFollowerCount == 1000

\* timedelta(days=90)
RecencyDays == 90

\* views_followers_ratio >= 3
MinViewsFollowersRatio == 3

\* x >= y on two numbers
GreaterEq(x, y) == x.num * y.den >= y.num * x.den

\* reel_data.get('like_count') and reel_data.get('view_count')
HasLikesAndViews(rd) == Get(rd, "like_count", 0) # 0 /\ Get(rd, "view_count", 0) # 0

\* reel_data after the two assignments under that test: both metrics are
\* computed again and stored
Rescored(rd) ==
    [k \in DOMAIN rd \cup {"engagement_rate", "views_followers_ratio"} |->
        IF k = "engagement_rate"
        THEN Times(TrueDiv(rd.like_count + Get(rd, "comment_count", 0),
                           rd.view_count), 100)
        ELSE IF k = "views_followers_ratio"
        THEN TrueDiv(Get(rd, "view_count", 0),
                     Max1(Get(rd, "follower_count", DefaultFollowerCount)))
        ELSE rd[k]]

\* x.get('engagement_rate', 0)
Score(rd) == Get(rd, "engagement_rate", Num(0))

\* a gate that lets every record through
TooOldMut(rd) == FALSE

\* scraped_at < ninety_days_ago, with ninety_days_ago = datetime.now() -
\* timedelta(days=90) taken when the call began (day 0)
TooOld(rd) == Get(rd, "scraped_at", 0) < 0 - RecencyDays

\* engagement_rate >= min_engagement and views_followers_ratio >= 3
PassesThresholds(rd, min_eng) ==
    /\ GreaterEq(rd.engagement_rate, min_eng)
    /\ GreaterEq(rd.views_followers_ratio, Num(MinViewsFollowersRatio))

\* an exception left the computation of one of the two metrics
Raised(rd) ==
    \E k \in DOMAIN rd \cap {"engagement_rate", "views_followers_ratio"} : Raises(rd[k])

\* The audience_json column holds NULL, a text json.loads rejects, or the
\* text json.dumps made of a value; the three are told apart by `kind`.
NullJson == [kind |-> "NULL"]
InvalidJson == [kind |-> "invalid"]

\* json.dumps(value)
JsonDumps(value) == [kind |-> "json", value |-> value]

\* the row INSERT OR REPLACE of _save_reel_to_db leaves for the reel at
\* database time t: the columns it does not name (transcript among them)
\* take their default, scraped_at the CURRENT_TIMESTAMP
SavedRow(rd, t) ==
    [permalink     |-> Get(rd, "permalink", Null),
     like_count    |-> Get(rd, "like_count", Null),
     comment_count |-> Get(rd, "comment_count", Null),
     audio_url     |-> Get(rd, "audio_url", Null),
     local_video   |-> Null,
     transcript    |-> Null,
     audience_json |-> IF "audience_json" \in DOMAIN rd /\ rd.audience_json.kind # "NULL"
                       THEN rd.audience_json
                       ELSE IF "audience_data" \in DOMAIN rd
                       THEN JsonDumps(rd.audience_data)
                       ELSE NullJson,
     scraped_at    |-> t]

\* the table after INSERT OR REPLACE of `row` under the primary key `id`
Replaced(table, id, row) ==
    [i \in DOMAIN table \cup {id} |-> IF i = id THEN row ELSE table[i]]

\* a sort that leaves the reels in the order given
SortReelsMut(reels) == reels

\* an ascending sort read backwards: equal rates come out in reverse order
SortReelsReversed(reels) ==
    LET pos(i) == 1 + Cardinality({j \in 1..Len(reels) :
                      \/ ~GreaterEq(Get(reels[j], "engagement_rate", Num(0)),
                                    Get(reels[i], "engagement_rate", Num(0)))
                      \/ /\ Get(reels[j], "engagement_rate", Num(0))
                               = Get(reels[i], "engagement_rate", Num(0))
                         /\ j < i})
        asc == [p \in 1..Len(reels) |-> reels[CHOOSE i \in 1..Len(reels) : pos(i) = p]]
    IN [p \in 1..Len(reels) |-> asc[Len(reels) + 1 - p]]

\* reels_data.sort(key=lambda x: x.get('engagement_rate', 0), reverse=True):
\* stable, descending; each reel goes behind the reels sorted before it whose
\* rate is not smaller
RECURSIVE SortReels(_)
SortReels(reels) ==
    IF reels = <<>> THEN <<>>
    ELSE LET sorted == SortReels(SubSeq(reels, 1, Len(reels) - 1))
             x == reels[Len(reels)]
             n == Cardinality({i \in 1..Len(sorted) : GreaterEq(Score(sorted[i]), Score(x))})
         IN SubSeq(sorted, 1, n) \o <<x>> \o SubSeq(sorted, n + 1, Len(sorted))

\* one pass of the loop body over an extracted record: the recency gate, the
\* scoring, the thresholds.  `pc` tells where the pass ended, `rd` is the
\* record as the pass leaves it, `keep` whether it is appended and saved
LoopBody(rd, min_eng) ==
    IF TooOld(rd)
    THEN [pc |-> "skipped", rd |-> rd, keep |-> FALSE]
    ELSE IF ~HasLikesAndViews(rd)
    THEN [pc |-> "scored", rd |-> rd, keep |-> FALSE]
    ELSE LET r == Rescored(rd)
         IN IF Raised(r)
            THEN [pc |-> "raised", rd |-> r, keep |-> FALSE]
            ELSE [pc |-> "scored", rd |-> r, keep |-> PassesThresholds(r, min_eng)]

\* a search that raises whenever it found nothing, whatever the environment
RaisesNoReelsMut(scraped, inCI) == Len(scraped) = 0

\* len(scraped_reels) == 0 and os.getenv('CI') == 'true'
RaisesNoReels(scraped, inCI) == Len(scraped) = 0 /\ inCI

\* The loop, the sort and the truncation over records already extracted:
\* what the search leaves of `records` when they are what the links yield.
RankAndFilter(records, min_eng, top) ==
    LET visited == Take(records, Min(top * 2, Len(records)))
        Keeps(rd) == LoopBody(rd, min_eng).keep
        kept == SelectSeq(visited, Keeps)
        scored == [i \in 1..Len(kept) |-> LoopBody(kept[i], min_eng).rd]
    IN Take(SortReels(scored), top)

\* the counts a page can show
ExtraCounts == {50, 100, 1000, 5000}
Counts == (0..MaxCount) \cup ExtraCounts

\* what a wall clock can read while a link is scraped, in days since the call
\* began (datetime.now() is not monotonic)
ClockReadings == {0 - 91, 0 - 90, 0}

Pages ==
    [nav_ok : BOOLEAN, metrics_ok : BOOLEAN,
     likeCount : Counts, commentCount : Counts, viewCount : Counts,
     followerCount : {0, 1, 1000}, reel_id : {ReelIds[1]}, now : {0}]

\* the pages the search specification draws its links from: two reels of
\* equal score, a better one, one without likes, one below the thresholds,
\* and a good one read at each clock reading
SearchPage(like, comment, view, now) ==
    [nav_ok |-> TRUE, metrics_ok |-> TRUE, likeCount |-> like,
     commentCount |-> comment, viewCount |-> view, followerCount |-> 1000,
     reel_id |-> ReelIds[1], now |-> now]

SearchPages ==
    {SearchPage(100, 50, 5000, 0), SearchPage(150, 0, 5000, 0),
     SearchPage(0, 500, 5000, 0), SearchPage(100, 50, 1000, 0)}
    \cup {SearchPage(500, 0, 5000, now) : now \in ClockReadings}

\* the link lists of at most n links over the pages of S, each page under the
\* reel id of its position
LinkLists(S, n) ==
    UNION {{[i \in 1..k |-> [f[i] EXCEPT !.reel_id = ReelIds[i]]] :
              f \in [1..k -> S]} : k \in 0..n}

\* the min_engagement a caller passes (2.0 is the default)
MinEngagements == {Num(0), Num(2), Num(15)}

\* the top_count a caller passes
TopCounts == 0..MaxTop

\* ---- mock mode

\* the reel ids of the mock reels, by index i + 1
MockIds == <<"mock_0", "mock_1", "mock_2", "mock_3">>

\* their permalinks
MockLinks == <<"/reel/mock_mock_0/", "/reel/mock_mock_1/", "/reel/mock_mock_2/",
               "/reel/mock_mock_3/">>

\* the interest the keyword names, and another of the list
Keyword == "beauty"
OtherInterest == "fashion"

\* draws of random.uniform(2.0, 15.0), random.randint(1000, 50000),
\* random.randint(50, 500)
MockDraws ==
    {[engagement_rate |-> Num(2), like_count |-> 1000, comment_count |-> 50],
     [engagement_rate |-> Num(15), like_count |-> 50000, comment_count |-> 500]}

\* int(like_count / (engagement_rate / 100))
MockViewCount(like, rate) == (like * 100 * rate.den) \div rate.num

\* audience_data of mock reel i (counted from 0): reel 0 has the keyword as
\* its interest and age 'unknown', the others a random choice
MockAudience(i) ==
    IF i = 0
    THEN [age |-> "unknown", gender |-> "female",
          interests |-> <<Keyword>>, keywords |-> <<Keyword, OtherInterest>>]
    ELSE [age |-> "18-24", gender |-> "female",
          interests |-> <<OtherInterest, Keyword>>,
          keywords |-> <<Keyword, OtherInterest>>]

\* mock reel i as _save_reel_to_db sees it
MockReel(i, draw) ==
    [reel_id         |-> MockIds[i + 1],
     permalink       |-> MockLinks[i + 1],
     like_count      |-> draw.like_count,
     comment_count   |-> draw.comment_count,
     view_count      |-> MockViewCount(draw.like_count, draw.engagement_rate),
     engagement_rate |-> draw.engagement_rate,
     scraped_at      |-> 0,
     audience_json   |-> JsonDumps(MockAudience(i))]

\* the list _generate_mock_reels returns under the draws: each reel has
\* gained the key audience_data
_generate_mock_reels(draws) ==
    [k \in 1..Len(draws) |->
        [key \in DOMAIN MockReel(k - 1, draws[k]) \cup {"audience_data"} |->
            IF key = "audience_data" THEN MockAudience(k - 1)
            ELSE MockReel(k - 1, draws[k])[key]]]

\* the table after the mock reels of `draws` were saved from time t on
RECURSIVE SavedMocks(_, _, _)
SavedMocks(table, draws, t) ==
    IF draws = <<>> THEN table
    ELSE LET n == Len(draws)
             before == SavedMocks(table, SubSeq(draws, 1, n - 1), t)
             reel == MockReel(n - 1, draws[n])
         IN Replaced(before, reel.reel_id, SavedRow(reel, t + n - 1))

\* --------------------------------------------------------- audience matcher

\* the limit of get_reels_by_audience when the caller gives none
DefaultLimit == 10

\* the limits a caller passes
Limits == {1, DefaultLimit}

\* audience profiles as _analyze_comments writes them
Audiences ==
    {[age |-> "18-24", gender |-> "female",
      interests |-> <<"fashion", "beauty">>, keywords |-> <<>>],
     [age |-> "18-24", gender |-> "male",
      interests |-> <<"beauty">>, keywords |-> <<>>],
     [age |-> "25-34", gender |-> "male",
      interests |-> <<"tech">>, keywords |-> <<>>]}

\* the audience_json a caller hands to insert_reel: None, a text that is not
\* JSON, or a dictionary
AudienceJsons == {NullJson, InvalidJson} \cup {JsonDumps(a) : a \in Audiences}

\* the targets a caller passes
Targets ==
    {<<>>,
     [age |-> "18-24"],
     [interest |-> "beauty"],
     [age |-> "18-24", interest |-> "beauty"],
     [age |-> "18-24", gender |-> "female"]}

\* the reels a caller hands to insert_reel: the two reels of the ranking
\* example, under each audience_json
InsertedReels ==
    {[like_count |-> c.like_count, comment_count |-> c.comment_count,
      audience_json |-> a] :
        c \in {[like_count |-> 10, comment_count |-> 2],
                [like_count |-> 500, comment_count |-> 100]},
        a \in AudienceJsons}

\* the row INSERT OR REPLACE of insert_reel leaves at database time t: every
\* column but scraped_at is reel_data.get(column)
InsertedRow(rd, t) ==
    [permalink     |-> Get(rd, "permalink", Null),
     like_count    |-> Get(rd, "like_count", Null),
     comment_count |-> Get(rd, "comment_count", Null),
     audio_url     |-> Get(rd, "audio_url", Null),
     local_video   |-> Get(rd, "local_video", Null),
     transcript    |-> Get(rd, "transcript", Null),
     audience_json |-> Get(rd, "audience_json", NullJson),
     scraped_at    |-> t]

\* SELECT * FROM reels WHERE audience_json IS NOT NULL ORDER BY scraped_at
\* DESC: the reel ids, the latest first (the rows of the model have distinct
\* scraped_at)
SelectReels(table) ==
    LET ids == {id \in DOMAIN table : table[id].audience_json.kind # "NULL"}
        rank(id) == 1 + Cardinality({o \in ids : table[o].scraped_at > table[id].scraped_at})
    IN [p \in 1..Cardinality(ids) |-> CHOOSE id \in ids : rank(id) = p]

\* json.loads(reel['audience_json']) raises
LoadsRaises(row) == row.audience_json.kind # "json"

\* match_score: the keys of the target the audience holds with an equal value
MatchScore(audience, tgt) ==
    Cardinality({key \in DOMAIN tgt :
                    key \in DOMAIN audience /\ audience[key] = tgt[key]})

\* the reel dictionary with match_score set
WithScore(table, id, score) ==
    [key \in DOMAIN table[id] \cup {"reel_id", "match_score"} |->
        IF key = "reel_id" THEN id
        ELSE IF key = "match_score" THEN score
        ELSE table[id][key]]

\* a loop that skips no reel
KeepsReelMut(table, id, tgt) == TRUE

\* the reel is appended to matched_reels: its audience_json loads and
\* match_score > 0
KeepsReel(table, id, tgt) ==
    /\ ~LoadsRaises(table[id])
    /\ MatchScore(table[id].audience_json.value, tgt) > 0

\* matched_reels.sort(key=lambda x: x.get('match_score', 0), reverse=True)
RECURSIVE SortMatched(_)
SortMatched(reels) ==
    IF reels = <<>> THEN <<>>
    ELSE LET sorted == SortMatched(SubSeq(reels, 1, Len(reels) - 1))
             x == reels[Len(reels)]
             n == Cardinality({i \in 1..Len(sorted) : sorted[i].match_score >= x.match_score})
         IN SubSeq(sorted, 1, n) \o <<x>> \o SubSeq(sorted, n + 1, Len(sorted))

\* a truncation that returns every matched reel
TruncateMut(reels, n) == reels

\* matched_reels[:limit]
Truncate(reels, n) == Take(reels, n)

get_reels_by_audience(table, tgt, lim) ==
    LET reels == SelectReels(table)
        Keeps(id) == KeepsReel(table, id, tgt)
        keptIds == SelectSeq(reels, Keeps)
        matched_reels ==
            [i \in 1..Len(keptIds) |->
                WithScore(table, keptIds[i],
                          IF LoadsRaises(table[keptIds[i]]) THEN 0
                          ELSE MatchScore(table[keptIds[i]].audience_json.value, tgt))]
    IN Truncate(SortMatched(matched_reels), lim)

\* ------------------------------------------------------------ state machines

\* the value of `profile` before any call
NotAnalyzed == [age |-> "", gender |-> "", interests |-> <<>>, keywords |-> <<>>]

\* the page of a link before the search looks at one
NoPage == [nav_ok |-> TRUE, metrics_ok |-> TRUE,
           likeCount |-> 0, commentCount |-> 0, viewCount |-> 0, followerCount |-> 0,
           reel_id |-> ReelIds[1], now |-> 0]

\* the classifier, the search and the matcher before they are used
ClassifierIdle ==
    /\ comments = <<>>
    /\ profile = NotAnalyzed
    /\ cpc = "idle"

SearchIdle ==
    /\ page = NoPage
    /\ min_engagement = Num(2)
    /\ reel_data = <<>>
    /\ reels_data = <<>>
    /\ rpc = "idle"
    /\ unique_links = <<>>
    /\ links = <<>>
    /\ top_count = 0
    /\ mock_mode = FALSE
    /\ ci = FALSE
    /\ result = <<>>

MatcherIdle ==
    /\ target = <<>>
    /\ limit = DefaultLimit
    /\ matched = <<>>
    /\ mpc = "idle"

\* no call on the store, no task, no script generation, no keyword yet
NoReturn == [kind |-> "none"]

AppIdle ==
    /\ ret = NoReturn
    /\ tasks = <<>>
    /\ script_reels = <<>>
    /\ scripts = <<>>
    /\ keywords_table = <<>>
    /\ calls = <<>>

InitClassifier ==
    /\ comments = <<>>
    /\ profile = NotAnalyzed
    /\ cpc = "input"
    /\ SearchIdle
    /\ MatcherIdle
    /\ AppIdle
    /\ db = <<>>
    /\ clock = 0

\* the caller collects one more comment (the scraped page, or comments_json)
AddComment ==
    /\ cpc = "input"
    /\ Len(comments) < MaxComments
    /\ \E k \in 1..Len(CommentPool) : comments' = Append(comments, CommentPool[k])
    /\ UNCHANGED <<profile, cpc, page, reel_data, reels_data, db, rpc, links,
                   result, clock, searchArgs, matcherVars, appVars>>

\* audience_data = self._analyze_comments(comments)
AnalyzeComments ==
    /\ cpc = "input"
    /\ profile' = _analyze_comments(comments)
    /\ cpc' = "done"
    /\ UNCHANGED <<comments, page, reel_data, reels_data, db, rpc, links,
                   result, clock, searchArgs, matcherVars, appVars>>

NextClassifier == AddComment \/ AnalyzeComments

SpecClassifier == InitClassifier /\ [][NextClassifier]_vars

\* ---- search_reels_by_keyword

\* the state of a search about to begin, its arguments left open
SearchStart ==
    /\ ClassifierIdle
    /\ MatcherIdle
    /\ AppIdle
    /\ page = NoPage
    /\ reel_data = <<>>
    /\ reels_data = <<>>
    /\ links = <<>>
    /\ result = <<>>
    /\ db = <<>>
    /\ clock = 0
    /\ rpc = "start"

\* one link, over every page
InitRanker ==
    /\ SearchStart
    /\ top_count = 1
    /\ ci = FALSE
    /\ mock_mode \in BOOLEAN
    /\ IF mock_mode
       THEN unique_links = <<>> /\ min_engagement = Num(2)
       ELSE /\ min_engagement \in MinEngagements
            /\ unique_links \in
                 {<<p>> : p \in
                    {q \in Pages :
                       /\ ~q.nav_ok => q = [NoPage EXCEPT !.nav_ok = FALSE]
                       /\ ~q.metrics_ok => q = [NoPage EXCEPT !.nav_ok = q.nav_ok,
                                                              !.metrics_ok = FALSE]}}

\* several links, over the pages of SearchPages
InitSearch ==
    /\ SearchStart
    /\ top_count \in TopCounts
    /\ ci \in BOOLEAN
    /\ mock_mode \in BOOLEAN
    /\ min_engagement = Num(2)
    /\ IF mock_mode
       THEN unique_links = <<>>
       ELSE unique_links \in LinkLists(SearchPages, MaxLinks)

\* the live path up to the loop: for link in unique_links[:min(top_count * 2,
\* len(unique_links))]
StartSearch ==
    /\ rpc = "start"
    /\ ~mock_mode
    /\ links' = Take(unique_links, Min(top_count * 2, Len(unique_links)))
    /\ rpc' = "link"
    /\ UNCHANGED <<page, reel_data, reels_data, db, result, clock, searchArgs,
                   classifierVars, matcherVars, appVars>>

\* the mock path: _generate_mock_reels(keyword, top_count) saves each reel
\* and the list is returned as generated
MockSearch ==
    /\ rpc = "start"
    /\ mock_mode
    /\ \E draws \in [1..top_count -> MockDraws] :
          LET mock_reels == _generate_mock_reels(draws)
          IN /\ db' = SavedMocks(db, draws, clock)
             /\ clock' = clock + Len(draws)
             /\ IF RaisesNoReels(mock_reels, ci)
                THEN rpc' = "error" /\ result' = result
                ELSE rpc' = "returned" /\ result' = mock_reels
    /\ UNCHANGED <<page, reel_data, reels_data, links, searchArgs,
                   classifierVars, matcherVars, appVars>>

\* reel_data = self._extract_reel_data(link) for the next link; an exception
\* is caught by the `except` of the loop, which goes on to the next link
ExtractReelData ==
    /\ rpc \in {"link", "scored", "skipped", "raised"}
    /\ links # <<>>
    /\ page' = Head(links)
    /\ links' = Tail(links)
    /\ reel_data' = _extract_reel_data(page')
    /\ rpc' = IF Raised(reel_data') THEN "raised" ELSE "extracted"
    /\ UNCHANGED <<reels_data, db, result, clock, searchArgs,
                   classifierVars, matcherVars, appVars>>

\* the rest of the loop body: the recency gate, the scoring, the thresholds,
\* reels_data.append and _save_reel_to_db
ScoreReel ==
    /\ rpc = "extracted"
    /\ LET body == LoopBody(reel_data, min_engagement)
       IN /\ rpc' = body.pc
          /\ reel_data' = body.rd
          /\ IF body.keep
             THEN /\ reels_data' = Append(reels_data, body.rd)
                  /\ db' = Replaced(db, body.rd.reel_id, SavedRow(body.rd, clock))
                  /\ clock' = clock + 1
             ELSE UNCHANGED <<reels_data, db, clock>>
    /\ UNCHANGED <<page, links, result, searchArgs, classifierVars, matcherVars, appVars>>

\* after the loop: the sort, scraped_reels = reels_data[:top_count], the
\* RuntimeError of an empty result in CI, the return
FinishSearch ==
    /\ rpc \in {"link", "scored", "skipped", "raised"}
    /\ links = <<>>
    /\ reels_data' = SortReels(reels_data)
    /\ LET scraped_reels == Take(reels_data', top_count)
       IN IF RaisesNoReels(scraped_reels, ci)
          THEN rpc' = "error" /\ result' = result
          ELSE rpc' = "returned" /\ result' = scraped_reels
    /\ UNCHANGED <<page, reel_data, links, db, clock, searchArgs,
                   classifierVars, matcherVars, appVars>>

NextRanker ==
    StartSearch \/ MockSearch \/ ExtractReelData \/ ScoreReel \/ FinishSearch

SpecRanker == InitRanker /\ [][NextRanker]_vars

SpecSearch == InitSearch /\ [][NextRanker]_vars

\* ---- the reels table and get_reels_by_audience

InitMatcher ==
    /\ ClassifierIdle
    /\ SearchIdle
    /\ AppIdle
    /\ db = <<>>
    /\ clock = 0
    /\ target = <<>>
    /\ limit = DefaultLimit
    /\ matched = <<>>
    /\ mpc = "fill"

\* insert_reel(reel_data): a new reel, or an id the table holds already
InsertReel ==
    /\ mpc = "fill"
    /\ clock < MaxInserts
    /\ \E i \in 1..Min(Cardinality(DOMAIN db) + 1, Len(ReelIds)), rd \in InsertedReels :
          db' = Replaced(db, ReelIds[i], InsertedRow(rd, clock))
    /\ clock' = clock + 1
    /\ UNCHANGED <<page, reel_data, reels_data, rpc, links, result, searchArgs,
                   classifierVars, matcherVars, appVars>>

\* get_reels_by_audience(target, limit)
GetReelsByAudience ==
    /\ mpc = "fill"
    /\ \E tgt \in Targets, lim \in Limits :
          /\ target' = tgt
          /\ limit' = lim
          /\ matched' = get_reels_by_audience(db, tgt, lim)
    /\ mpc' = "returned"
    /\ UNCHANGED <<page, reel_data, reels_data, db, rpc, links, result, clock,
                   searchArgs, classifierVars, appVars>>

NextMatcher == InsertReel \/ GetReelsByAudience

SpecMatcher == InitMatcher /\ [][NextMatcher]_vars

\* ------------------------------------------------------- keywords table

\* most calls of extract_and_save_keywords
MaxCalls == 3

\* the themes a caller passes
ThemePool ==
  <<
    <<"y", "o", "g", "a", " ", "y", "o", "g", "a">>,  \* "yoga yoga": one keyword, twice
    <<"Y", "o", "g", "a", ",", " ", "y", "o", "g", "a", "!", " ", "d", "i", "e", "t", " ", "d", "i", "e", "t">>,  \* "Yoga, yoga! diet diet": upper case and punctuation; two keywords
    <<"d", "i", "e", "t", " ", "y", "o", "g", "a">>,  \* "diet yoga": each word once: no keyword
    <<"l", "i", "k", "e", " ", "l", "i", "k", "e", " ", "a", "b", "c", " ", "a", "b", "c">>,  \* "like like abc abc": a stop word and a word of three characters: no keyword
    <<"y", "o", "g", "a", "-", "y", "o", "g", "a", " ", "d", "i", "e", "t">>  \* "yoga-yoga diet": the hyphen is removed and the words run together: no keyword
  >>

\* the client ids a request carries: ThemeRequest.client_id is Optional[str]
Clients == {"default", "client_2", Null}

stop_words ==
    {<<"t", "h", "e">>,
     <<"a">>,
     <<"a", "n">>,
     <<"a", "n", "d">>,
     <<"o", "r">>,
     <<"b", "u", "t">>,
     <<"i", "n">>,
     <<"o", "n">>,
     <<"a", "t">>,
     <<"t", "o">>,
     <<"f", "o", "r">>,
     <<"w", "i", "t", "h">>,
     <<"b", "y">>,
     <<"a", "b", "o", "u", "t">>,
     <<"l", "i", "k", "e">>}

Digits == {"0", "1", "2", "3", "4", "5", "6", "7", "8", "9"}

\* the characters of a lower-case text that [^\w\s] leaves in place
WordOrSpace ==
    {LowerCase[i] : i \in 1..Len(LowerCase)} \cup Digits \cup {"_"} \cup WhiteSpace

\* re.sub(r'[^\w\s]', '', text.lower())
Normalized(text) ==
    LET IsKept(c) == c \in WordOrSpace
    IN SelectSeq(Lower(text), IsKept)

\* a keyword is a word longer than this
MinKeywordLen == 3

\* the keys of Counter(words) that pass the filter, in the order of their
\* first occurrence
ExtractKeywords(text) ==
    LET words == Split(Normalized(text))
        count(w) == Cardinality({i \in 1..Len(words) : words[i] = w})
        first == {i \in 1..Len(words) : \A j \in 1..(i - 1) : words[j] # words[i]}
        picked == {i \in first : /\ Len(words[i]) > MinKeywordLen
                                  /\ words[i] \notin stop_words
                                  /\ count(words[i]) > 1}
        at(k) == CHOOSE i \in picked : Cardinality({j \in picked : j < i}) = k - 1
    IN [k \in 1..Cardinality(picked) |-> words[at(k)]]

\* one turn of the loop: SELECT the row of (keyword, client_id); UPDATE its
\* frequency and last_used, or INSERT a row of frequency 1. In SQL the
\* comparison client_id = NULL is true of no row
SaveKeyword(table, keyword, client_id, t) ==
    LET found == {i \in 1..Len(table) : /\ client_id # Null
                                         /\ table[i].keyword = keyword
                                         /\ table[i].client_id = client_id}
    IN IF found # {}
       THEN LET i == CHOOSE i \in found : \A j \in found : i <= j
            IN [table EXCEPT ![i].frequency = table[i].frequency + 1,
                             ![i].last_used = t]
       ELSE Append(table, [id |-> Len(table) + 1, keyword |-> keyword,
                           client_id |-> client_id, frequency |-> 1,
                           last_used |-> t])

\* the table after the loop over the keywords
RECURSIVE SaveKeywords(_, _, _, _)
SaveKeywords(table, kws, client_id, t) ==
    IF kws = <<>> THEN table
    ELSE SaveKeywords(SaveKeyword(table, Head(kws), client_id, t),
                      Tail(kws), client_id, t)

\* the table extract_and_save_keywords(text, client_id) leaves at time t
extract_and_save_keywords(table, text, client_id, t) ==
    SaveKeywords(table, ExtractKeywords(text), client_id, t)

InitKeywords ==
    /\ ClassifierIdle
    /\ SearchIdle
    /\ MatcherIdle
    /\ db = <<>>
    /\ clock = 0
    /\ ret = NoReturn
    /\ tasks = <<>>
    /\ script_reels = <<>>
    /\ scripts = <<>>
    /\ keywords_table = <<>>
    /\ calls = <<>>

\* keywords = extract_and_save_keywords(text, client_id)
ExtractAndSaveKeywords ==
    /\ Len(calls) < MaxCalls
    /\ \E k \in 1..Len(ThemePool), client_id \in Clients :
          /\ keywords_table' = extract_and_save_keywords(keywords_table,
                                    ThemePool[k], client_id, Len(calls) + 1)
          /\ calls' = Append(calls, [text |-> ThemePool[k], client_id |-> client_id])
          /\ ret' = [kind |-> "returned", value |-> ExtractKeywords(ThemePool[k])]
    /\ UNCHANGED <<db, clock, tasks, scriptVars, searchVars, classifierVars,
                   matcherVars>>

NextKeywords == ExtractAndSaveKeywords

SpecKeywords == InitKeywords /\ [][NextKeywords]_vars

\* ------------------------------------------------------ script generation

\* most reels in a list handed to generate_scripts_from_reels
MaxReels == 3

\* SCRIPT_STYLES, by the English names the source gives beside them
SCRIPT_STYLES ==
    <<"Problem-Solution", "Day-in-the-Life", "How-To", "Comparison", "Storytelling">>

\* [type] * n
Repeat(type, n) == [i \in 1..n |-> type]

\* the section types generate_script writes for a style; no section for a
\* style outside SCRIPT_STYLES
ScriptSections(style) ==
    IF style = "Problem-Solution" THEN <<"intro">> \o Repeat("main", 3) \o <<"cta">>
    ELSE IF style = "Day-in-the-Life" THEN <<"intro">> \o Repeat("main", 5) \o <<"cta">>
    ELSE IF style = "How-To" THEN <<"intro">> \o Repeat("main", 3) \o <<"cta">>
    ELSE IF style = "Comparison" THEN <<"intro">> \o Repeat("main", 4) \o <<"cta">>
    ELSE IF style = "Storytelling" THEN <<"intro">> \o Repeat("main", 4) \o <<"cta">>
    ELSE <<>>

\* engagement_stats of a script
Stats(like_count, comment_count, view_count) ==
    [like_count |-> like_count, comment_count |-> comment_count,
     view_count |-> view_count]

\* generate_script(reel_id, transcript, theme, style, ...): the uuid and the
\* texts left out
generate_script(reel_id, style) ==
    [style |-> style,
     sections |-> ScriptSections(style),
     original_reel_id |-> reel_id,
     engagement_stats |-> Stats(0, 0, 0)]

\* the id of no reel: "mock_" and eight hexadecimal digits
MockReelId == "mock_"

\* generate_mock_script(theme, style, target): both branches write an intro,
\* three main sections and a cta
generate_mock_script(style) ==
    [style |-> style,
     sections |-> <<"intro">> \o Repeat("main", 3) \o <<"cta">>,
     original_reel_id |-> MockReelId,
     engagement_stats |-> Stats(100, 20, 1000)]

\* the sort key, x["like_count"] + x["comment_count"]
Interactions(reel) == reel.like_count + reel.comment_count

\* a sort that leaves the reels in the order given
SortByInteractionsMut(reels) == reels

\* sorted(reels, key=..., reverse=True): stable, descending
RECURSIVE SortByInteractions(_)
SortByInteractions(reels) ==
    IF reels = <<>> THEN <<>>
    ELSE LET sorted == SortByInteractions(SubSeq(reels, 1, Len(reels) - 1))
             x == reels[Len(reels)]
             n == Cardinality({i \in 1..Len(sorted) :
                                  Interactions(sorted[i]) >= Interactions(x)})
         IN SubSeq(sorted, 1, n) \o <<x>> \o SubSeq(sorted, n + 1, Len(sorted))

\* the scripts after the while loop: mock scripts up to two
RECURSIVE Padded(_)
Padded(made) ==
    IF Len(made) < 2
    THEN Padded(Append(made, generate_mock_script(SCRIPT_STYLES[Len(made) + 1])))
    ELSE made

generate_scripts_from_reels(reels) ==
    LET top_reels == Take(SortByInteractions(reels), 2)
        made == [i \in 1..Len(top_reels) |->
                    generate_script(top_reels[i].reel_id,
                        SCRIPT_STYLES[((i - 1) % Len(SCRIPT_STYLES)) + 1])]
    IN Padded(made)

\* (like_count, comment_count) of the reels in a list
ReelCounts == {<<10, 2>>, <<500, 100>>, <<6, 6>>, <<0, 0>>}

\* the lists of n reels: the reel at place i has the id ReelIds[i]
RECURSIVE ReelLists(_)
ReelLists(n) ==
    IF n = 0 THEN {<<>>}
    ELSE {Append(l, [reel_id |-> ReelIds[n], like_count |-> c[1],
                     comment_count |-> c[2]]) : l \in ReelLists(n - 1), c \in ReelCounts}

InitScripts ==
    /\ ClassifierIdle
    /\ SearchIdle
    /\ MatcherIdle
    /\ db = <<>>
    /\ clock = 0
    /\ ret = NoReturn
    /\ tasks = <<>>
    /\ keywords_table = <<>>
    /\ calls = <<>>
    /\ scripts = <<>>
    /\ \E n \in 0..MaxReels : script_reels \in ReelLists(n)

\* scripts = generate_scripts_from_reels(reels, theme, target, client_settings)
GenerateScriptsFromReels ==
    /\ ret = NoReturn
    /\ scripts' = generate_scripts_from_reels(script_reels)
    /\ ret' = [kind |-> "returned", value |-> "scripts"]
    /\ UNCHANGED <<db, clock, tasks, script_reels, keywordVars, searchVars,
                   classifierVars, matcherVars>>

NextScripts == GenerateScriptsFromReels

SpecScripts == InitScripts /\ [][NextScripts]_vars

\* ------------------------------------------------------- the reels table

\* most calls of _save_reel_to_db
MaxSaves == 2

\* the ids of the reels the scraper saves: an ordinary id, and the id of the
\* link /reel/permalink/, which is the name of a column
ScrapedIds == {"r1", "permalink"}

\* reel_url of a scraped reel
ScrapedLink(id) == IF id = "permalink" THEN "/reel/permalink/" ELSE Permalink(id)

\* (like_count, comment_count) the page of a reel shows
ScrapedCounts == {<<10, 2>>, <<-1, 500>>}

\* the reel_data search_reels_by_keyword hands to _save_reel_to_db
ScrapedReel(id, c) ==
    [reel_id |-> id, permalink |-> ScrapedLink(id),
     like_count |-> c[1], comment_count |-> c[2], audio_url |-> Null]

\* the reels _save_reel_to_db is handed: scraped reels, and the first reel
\* of _generate_mock_reels, which carries its audience_json
SavedReels ==
    {ScrapedReel(id, c) : id \in ScrapedIds, c \in ScrapedCounts}
        \cup {MockReel(0, draw) : draw \in MockDraws}

\* the reel ids a caller asks about: nobody saves r2
AskedIds == ScrapedIds \cup {MockIds[1], "r2"}

\* `name in reel` on a sqlite3.Row, which has no __contains__: the test runs
\* over the values of the row, not over the names of its columns (no number
\* and no JSON text of the model equals a name)
InRow(name, id, row) ==
    name \in ({id, row.permalink, row.audio_url, row.local_video, row.transcript}
                 \ {Null})

\* bool(text) of a TEXT column
Truthy(text) == text # Null /\ text # ""

\* the outcome of a call on the store: what it returned or raised
Returned(op, id, value) == [kind |-> "returned", op |-> op, id |-> id, value |-> value]
RaisedError(op, id, name) == [kind |-> "raised", op |-> op, id |-> id, value |-> [error |-> name]]

\* UPDATE reels SET column = value WHERE reel_id = id
Updated(table, id, column, value) ==
    [i \in DOMAIN table |-> IF i = id THEN [table[i] EXCEPT ![column] = value]
                            ELSE table[i]]

\* the comments page.evaluate may collect from the page of a reel
ScrapedComments == {<<>>, <<CommentPool[2]>>}

\* analyze_audience(reel_id): the table it leaves and what it returns, when
\* the page of the reel shows the comments `scraped`
analyze_audience(table, id, scraped) ==
    IF id \notin DOMAIN table
    THEN [table |-> table, ret |-> RaisedError("analyze_audience", id, "ValueError")]
    ELSE LET reel == table[id]
             has_audience_json == /\ InRow("audience_json", id, reel)
                                  /\ reel.audience_json.kind # "NULL"
             has_comments == InRow("comments_json", id, reel)
             has_permalink == InRow("permalink", id, reel) /\ Truthy(reel.permalink)
             cs == IF has_permalink THEN scraped ELSE <<>>
             audience_data == _analyze_comments(cs)
         IN IF has_audience_json /\ reel.audience_json.kind = "json"
            THEN [table |-> table,
                  ret |-> Returned("analyze_audience", id, reel.audience_json.value)]
            ELSE IF has_comments
            THEN [table |-> table, ret |-> RaisedError("analyze_audience", id, "IndexError")]
            ELSE [table |-> Updated(table, id, "audience_json", JsonDumps(audience_data)),
                  ret |-> Returned("analyze_audience", id, audience_data)]

\* what the download of the audio, yt-dlp and ffmpeg can do: succeed or fail
Outcomes == [audio : BOOLEAN, yt_dlp : BOOLEAN, ffmpeg : BOOLEAN]

\* the paths and the text written to the table
VideoPath == "media/reel.mp4"
AudioPath == "media/reel.mp3"
Transcript == "transcript text"

\* download_and_transcribe(reel_id, need_video): the table it leaves and the
\* result it returns, under the outcome `o` of the tools it runs
download_and_transcribe(table, id, need_video, o) ==
    IF id \notin DOMAIN table
    THEN [table |-> table, ret |-> RaisedError("download_and_transcribe", id, "ValueError")]
    ELSE LET reel == table[id]
             has_audio_url == InRow("audio_url", id, reel) /\ Truthy(reel.audio_url)
             has_permalink == InRow("permalink", id, reel) /\ Truthy(reel.permalink)
             audio == has_audio_url /\ o.audio
             video == need_video /\ has_permalink /\ o.yt_dlp
             extracted == video /\ ~has_audio_url /\ o.ffmpeg
             has_audio_path == audio \/ extracted
             t1 == IF video THEN Updated(table, id, "local_video", VideoPath) ELSE table
             t2 == IF has_audio_path THEN Updated(t1, id, "transcript", Transcript) ELSE t1
             keys == (IF video THEN {"video_path"} ELSE {})
                        \cup (IF has_audio_path THEN {"audio_path", "transcript"} ELSE {})
             value == [k \in keys |-> IF k = "video_path" THEN VideoPath
                                      ELSE IF k = "audio_path" THEN AudioPath
                                      ELSE Transcript]
         IN [table |-> t2, ret |-> Returned("download_and_transcribe", id, value)]

InitStore ==
    /\ ClassifierIdle
    /\ SearchIdle
    /\ MatcherIdle
    /\ AppIdle
    /\ db = <<>>
    /\ clock = 0

\* self._save_reel_to_db(reel_data)
SaveReelToDb ==
    /\ clock < MaxSaves
    /\ \E rd \in SavedReels :
          /\ db' = Replaced(db, rd.reel_id, SavedRow(rd, clock))
          /\ ret' = Returned("_save_reel_to_db", rd.reel_id, <<>>)
    /\ clock' = clock + 1
    /\ UNCHANGED <<tasks, scriptVars, keywordVars, searchVars, classifierVars,
                   matcherVars>>

\* audience_data = scraper.analyze_audience(reel_id)
AnalyzeAudience ==
    /\ \E id \in AskedIds, scraped \in ScrapedComments :
          LET done == analyze_audience(db, id, scraped)
          IN /\ db' = done.table
             /\ ret' = done.ret
    /\ UNCHANGED <<clock, tasks, scriptVars, keywordVars, searchVars,
                   classifierVars, matcherVars>>

\* result = scraper.download_and_transcribe(reel_id, need_video)
DownloadAndTranscribe ==
    /\ \E id \in AskedIds, need_video \in BOOLEAN, o \in Outcomes :
          LET done == download_and_transcribe(db, id, need_video, o)
          IN /\ db' = done.table
             /\ ret' = done.ret
    /\ UNCHANGED <<clock, tasks, scriptVars, keywordVars, searchVars,
                   classifierVars, matcherVars>>

NextStore == SaveReelToDb \/ AnalyzeAudience \/ DownloadAndTranscribe

SpecStore == InitStore /\ [][NextStore]_vars

\* ------------------------------------------- concurrent classifier calls

\* the callers of _analyze_comments that run side by side
Tasks == {"t1", "t2"}

\* the comment lists they pass
TaskComments == {<<>>, <<CommentPool[2]>>, <<CommentPool[2], CommentPool[9]>>}

\* the frame of a caller: where it stands, its argument, the value returned
IdleFrame == [pc |-> "idle", comments |-> <<>>, profile |-> NotAnalyzed]

InitTasks ==
    /\ ClassifierIdle
    /\ SearchIdle
    /\ MatcherIdle
    /\ db = <<>>
    /\ clock = 0
    /\ ret = NoReturn
    /\ tasks = [t \in Tasks |-> IdleFrame]
    /\ script_reels = <<>>
    /\ scripts = <<>>
    /\ keywords_table = <<>>
    /\ calls = <<>>

\* a caller enters self._analyze_comments(comments)
CallAnalyzeComments ==
    /\ \E t \in Tasks, cs \in TaskComments :
          /\ tasks[t].pc = "idle"
          /\ tasks' = [tasks EXCEPT ![t] = [pc |-> "called", comments |-> cs,
                                            profile |-> NotAnalyzed]]
    /\ UNCHANGED <<db, clock, ret, scriptVars, keywordVars, searchVars,
                   classifierVars, matcherVars>>

\* the call returns its dictionary
ReturnAnalyzeComments ==
    /\ \E t \in Tasks :
          /\ tasks[t].pc = "called"
          /\ tasks' = [tasks EXCEPT ![t].pc = "returned",
                                    ![t].profile = _analyze_comments(tasks[t].comments)]
    /\ UNCHANGED <<db, clock, ret, scriptVars, keywordVars, searchVars,
                   classifierVars, matcherVars>>

NextTasks ==
    \/ CallAnalyzeComments
    \/ ReturnAnalyzeComments
    \/ SaveReelToDb

SpecTasks == InitTasks /\ [][NextTasks]_vars

\* ------------------------------------------------ the callers of the matcher

\* the targets a request carries; the empty one stands for no target
RequestTargets == {<<>>, [age |-> "18-24"], [gender |-> "female"]}

\* target or {'age': '18-34', 'interest': 'general'}
DefaultTarget == [age |-> "18-34", interest |-> "general"]

\* limit=5 of ScriptGenerator.generate_scripts
ServiceLimit == 5

\* _create_default_scripts: the two templated scripts, no reel behind them
DefaultScripts ==
    <<[original_reel_id |-> Null, option |-> 1,
       sections |-> <<"intro", "main", "conclusion">>],
      [original_reel_id |-> Null, option |-> 2,
       sections |-> <<"hook", "content", "cta">>]>>

\* _generate_trace_script: the first default script for a reel without a
\* transcript; for a transcript of one short paragraph the three sections
\* _analyze_transcript_structure pads it to
_generate_trace_script(reel) ==
    IF ~Truthy(reel.transcript)
    THEN DefaultScripts[1]
    ELSE [original_reel_id |-> reel.reel_id, option |-> 1,
          sections |-> <<"intro", "main", "conclusion">>]

\* _generate_high_engagement_script
_generate_high_engagement_script(primary_reel) ==
    [original_reel_id |-> primary_reel.reel_id, option |-> 2,
     sections |-> <<"hook", "content", "cta">>]

\* the tuple ScriptGenerator.generate_scripts returns for the matching reels
generate_scripts(matching_reels) ==
    IF matching_reels = <<>>
    THEN DefaultScripts
    ELSE <<_generate_trace_script(matching_reels[1]),
           _generate_high_engagement_script(matching_reels[1])>>

\* HTTPException(status_code=404, ...)
NotFound == [error |-> "HTTPException", status_code |-> 404]

InitApp ==
    /\ ClassifierIdle
    /\ SearchIdle
    /\ MatcherIdle
    /\ AppIdle
    /\ db = <<>>
    /\ clock = 0

\* script_generator.generate_scripts(client_id, theme, target) of
\* services/script_generator.py, for a client without stored settings
GenerateScripts ==
    /\ Len(calls) < MaxCalls
    /\ \E tgt \in RequestTargets, k \in {1, 3} :
          LET target_audience == IF DOMAIN tgt # {} THEN tgt ELSE DefaultTarget
              matching_reels == get_reels_by_audience(db, target_audience, ServiceLimit)
          IN /\ keywords_table' = extract_and_save_keywords(keywords_table,
                                       ThemePool[k], "default", Len(calls) + 1)
             /\ calls' = Append(calls, [text |-> ThemePool[k], client_id |-> "default"])
             /\ target' = target_audience
             /\ limit' = ServiceLimit
             /\ matched' = matching_reels
             /\ scripts' = generate_scripts(matching_reels)
             /\ ret' = Returned("generate_scripts", "default", <<>>)
    /\ UNCHANGED <<db, clock, tasks, script_reels, mpc, searchVars, classifierVars>>

\* POST /script/auto of main.py, for a client without stored settings
GenerateAutoScript ==
    /\ \E tgt \in RequestTargets :
          LET matching_reels == get_reels_by_audience(db, tgt, DefaultLimit)
          IN /\ target' = tgt
             /\ limit' = DefaultLimit
             /\ matched' = matching_reels
             /\ script_reels' = matching_reels
             /\ IF matching_reels = <<>>
                THEN /\ scripts' = <<>>
                     /\ ret' = [kind |-> "raised", op |-> "generate_auto_script",
                                id |-> "default", value |-> NotFound]
                ELSE /\ scripts' = generate_scripts_from_reels(matching_reels)
                     /\ ret' = Returned("generate_auto_script", "default", <<>>)
    /\ UNCHANGED <<db, clock, tasks, mpc, keywordVars, searchVars, classifierVars>>

NextApp == SaveReelToDb \/ GenerateScripts \/ GenerateAutoScript

SpecApp == InitApp /\ [][NextApp]_vars

\* ------------------------------------------------------------------ claims

\* C1: for the empty comment list _analyze_comments returns exactly the
\* profile age "unknown", gender "unknown", interests [], keywords [].
C1_EmptyCommentsProfile ==
    (cpc = "done" /\ comments = <<>>) =>
        profile = [age |-> "unknown", gender |-> "unknown",
                   interests |-> <<>>, keywords |-> <<>>]

C1_Witness == cpc = "done" /\ comments = <<>> /\ profile.gender = "unknown"

\* C2: for a non-empty comment list the returned age is the bracket whose
\* count of distinct matching markers is strictly above every other
\* bracket's count; on a tie for the highest count, or when every count is
\* zero, it is the default bracket.
C2_AgeStrictArgmaxElseDefault ==
    (cpc = "done" /\ comments # <<>>) =>
        LET text == AllText(comments)
            n(i) == Cardinality({k \in 1..Len(age_patterns[i].markers) :
                                    Contains(text, age_patterns[i].markers[k])})
            brackets == 1..Len(age_patterns)
            winners == {i \in brackets : \A j \in brackets \ {i} : n(j) < n(i)}
        IN profile.age = IF winners # {}
                         THEN age_patterns[CHOOSE i \in winners : TRUE].label
                         ELSE "18-34"

\* C3: for a non-empty comment list the returned gender is "male" or "female"
\* only when that gender's count of distinct matching markers is strictly
\* above the other's; on equal counts (both zero included) it is "unknown".
C3_GenderStrictArgmaxElseUnknown ==
    (cpc = "done" /\ comments # <<>>) =>
        LET text == AllText(comments)
            n(g) == LET i == CHOOSE i \in 1..Len(gender_patterns) :
                                 gender_patterns[i].label = g
                    IN Cardinality({k \in 1..Len(gender_patterns[i].markers) :
                                       Contains(text, gender_patterns[i].markers[k])})
        IN profile.gender = IF n("female") > n("male") THEN "female"
                            ELSE IF n("male") > n("female") THEN "male"
                            ELSE "unknown"

\* C4 as stated: the returned age is one of the five bracket labels of the
\* age table or "unknown".
C4_AgeInBracketLabels ==
    cpc = "done" =>
        profile.age \in {"13-17", "18-24", "25-34", "35-44", "45+", "unknown"}

\* C4 as amended: the returned age is one of the five bracket labels of the
\* age table, the default label "18-34", or "unknown".
C4_AgeInBracketLabelsOrDefault ==
    cpc = "done" =>
        profile.age \in {"13-17", "18-24", "25-34", "35-44", "45+", "18-34", "unknown"}

C4_Witness == cpc = "done" /\ comments # <<>> /\ profile.age = "18-34"

\* C5: a text that holds markers of bracket "45+" only gets age "45+",
\* however often a marker occurs; and appending a copy of a comment already
\* in the list changes none of the returned age, gender and interests.
C5_DistinctMarkersCountOnce ==
    cpc = "done" =>
        LET text == AllText(comments)
            hit(i) == \E k \in 1..Len(age_patterns[i].markers) :
                          Contains(text, age_patterns[i].markers[k])
            only45 == \A i \in 1..Len(age_patterns) :
                          hit(i) <=> age_patterns[i].label = "45+"
        IN /\ (comments # <<>> /\ only45) => profile.age = "45+"
           /\ \A c \in 1..Len(comments) :
                 LET again == _analyze_comments(Append(comments, comments[c]))
                 IN /\ again.age = profile.age
                    /\ again.gender = profile.gender
                    /\ again.interests = profile.interests

\* a 45+ marker occurring three times in one comment, the comment given twice
C5_Witness ==
    /\ cpc = "done"
    /\ Len(comments) = 2
    /\ comments[1] = comments[2]
    /\ Occurrences(AllText(<<comments[1]>>), <<"u5B9A", "u5E74">>) = 3
    /\ profile.age = "45+"

\* C6: the returned interests are exactly the categories of score > 0,
\* by descending score, equal scores in the declaration order of the
\* category table, cut to the first 3.
C6_InterestsRankedTop3 ==
    cpc = "done" =>
        LET text == AllText(comments)
            cats == 1..Len(interest_patterns)
            n(i) == Cardinality({k \in 1..Len(interest_patterns[i].markers) :
                                    Contains(text, interest_patterns[i].markers[k])})
            positive == IF comments = <<>> THEN {} ELSE {i \in cats : n(i) > 0}
            \* i comes before j in the ranking
            before(i, j) == n(i) > n(j) \/ (n(i) = n(j) /\ i < j)
            rank(i) == 1 + Cardinality({j \in positive : before(j, i)})
            got == profile.interests
        IN /\ Len(got) = (IF Cardinality(positive) < 3 THEN Cardinality(positive) ELSE 3)
           /\ \A p \in 1..Len(got) :
                 \E i \in positive : rank(i) = p /\ interest_patterns[i].label = got[p]

\* four categories score, the one declared second scores highest
C6_Witness ==
    /\ cpc = "done"
    /\ profile.interests = <<"travel", "fashion", "fitness">>
    /\ Contains(AllText(comments), <<"u6620", "u753B">>)

\* C7: the returned keywords are exactly the whitespace-separated tokens of
\* the lower-cased text that are longer than 2 characters and occur more than
\* once, by descending frequency, equal frequencies in order of first
\* occurrence, cut to the first 10.
C7_KeywordsRankedTop10 ==
    cpc = "done" =>
        LET tokens == IF comments = <<>> THEN <<>> ELSE Split(AllText(comments))
            occ(w) == Cardinality({p \in 1..Len(tokens) : tokens[p] = w})
            first(w) == CHOOSE p \in 1..Len(tokens) :
                            tokens[p] = w /\ \A q \in 1..(p - 1) : tokens[q] # w
            qualifying == {w \in {tokens[p] : p \in 1..Len(tokens)} :
                              Len(w) > 2 /\ occ(w) > 1}
            before(v, w) == occ(v) > occ(w) \/ (occ(v) = occ(w) /\ first(v) < first(w))
            rank(w) == 1 + Cardinality({v \in qualifying : before(v, w)})
            got == profile.keywords
        IN /\ Len(got) = (IF Cardinality(qualifying) < 10
                          THEN Cardinality(qualifying) ELSE 10)
           /\ \A p \in 1..Len(got) : got[p] \in qualifying /\ rank(got[p]) = p

\* eleven tokens qualify and ten are returned
C7_Witness ==
    /\ cpc = "done"
    /\ Len(profile.keywords) = 10
    /\ LET tokens == Split(AllText(comments))
       IN Cardinality({w \in {tokens[p] : p \in 1..Len(tokens)} :
             Len(w) > 2 /\ Cardinality({p \in 1..Len(tokens) : tokens[p] = w}) > 1}) = 11

\* C8: every returned profile has at most 3 interests, each a tag of the
\* fixed interest vocabulary, at most 10 keywords, and no entry twice in
\* either list.
C8_ProfileListsBounded ==
    cpc = "done" =>
        /\ Len(profile.interests) <= 3
        /\ \A p \in 1..Len(profile.interests) :
              profile.interests[p] \in
                  {"beauty", "fashion", "food", "travel", "fitness", "tech",
                   "education", "business", "entertainment", "gaming"}
        /\ Len(profile.keywords) <= 10
        /\ \A p, q \in 1..Len(profile.interests) :
              p # q => profile.interests[p] # profile.interests[q]
        /\ \A p, q \in 1..Len(profile.keywords) :
              p # q => profile.keywords[p] # profile.keywords[q]

\* both lists are non-empty and the interests list is full
C8_Witness ==
    /\ cpc = "done"
    /\ Len(profile.interests) = 3
    /\ Len(profile.keywords) >= 2

\* C9: a record whose view count is 0 has engagement score 0, whatever its
\* like and comment counts, and scoring it raises nothing.
C9_ZeroViewsScoreZero ==
    (rpc \in {"extracted", "scored", "skipped", "raised"}
        /\ Get(reel_data, "view_count", 0) = 0) =>
        /\ rpc # "raised"
        /\ Score(reel_data) = [num |-> 0, den |-> 1]

C9_Witness ==
    /\ rpc = "scored"
    /\ reel_data.view_count = 0
    /\ reel_data.like_count = 100
    /\ reel_data.comment_count = 50
    /\ reel_data.engagement_rate = [num |-> 0, den |-> 1]

\* C10: a record whose view count is above 0 has engagement score
\* (likes + comments) / views * 100, a like count of 0 included; likes 100,
\* comments 50, views 1000 give 15.
C10_ScoreIsPercentage ==
    (rpc \in {"extracted", "scored", "skipped", "raised"}
        /\ Get(reel_data, "view_count", 0) > 0) =>
        /\ rpc # "raised"
        /\ "engagement_rate" \in DOMAIN reel_data
        /\ reel_data.engagement_rate.den > 0
        /\ reel_data.engagement_rate.num * reel_data.view_count
              = (reel_data.like_count + reel_data.comment_count) * 100
                    * reel_data.engagement_rate.den
        /\ (reel_data.like_count = 100 /\ reel_data.comment_count = 50
               /\ reel_data.view_count = 1000)
              => reel_data.engagement_rate = [num |-> 15, den |-> 1]

\* no likes, some comments: the loop does not score again and the score of
\* _extract_reel_data stands
C10_Witness ==
    /\ rpc = "scored"
    /\ reel_data.like_count = 0
    /\ reel_data.comment_count = 50
    /\ reel_data.view_count = 1000
    /\ reel_data.engagement_rate = [num |-> 5, den |-> 1]

\* ---- the claims about search_reels_by_keyword

\* the loop kept the record it has just scored
Kept == \E i \in 1..Len(reels_data) : reels_data[i].reel_id = reel_data.reel_id

\* C11: the views-to-followers ratio the loop tests is viewCount /
\* max(1, followerCount) over the follower count scraped for the record
\* itself; with a follower count of 0 it is the view count.
C11_GateRatioFromOwnFollowers ==
    (rpc = "scored" /\ HasLikesAndViews(reel_data)) =>
        reel_data.views_followers_ratio
            = TrueDiv(reel_data.view_count, Max1(reel_data.ownerFollowersCount))

\* C12: a record that passed the recency gate is kept exactly when its
\* engagement score reaches the caller's minimum and its views-to-followers
\* ratio reaches the minimum ratio; no other field (a like count of 0) keeps
\* it out.
C12_KeptIffBothThresholds ==
    rpc = "scored" =>
        (Kept <=> /\ GreaterEq(Score(reel_data), min_engagement)
                  /\ GreaterEq(Get(reel_data, "views_followers_ratio", Num(0)),
                               Num(MinViewsFollowersRatio)))

\* the position in unique_links of the link with this reel id
LinkIndex(id) == CHOOSE k \in 1..Len(ReelIds) : ReelIds[k] = id

\* r goes before o in the ranking: a higher score, or an equal score and an
\* earlier link
RanksBefore(r, o) ==
    \/ ~GreaterEq(Score(o), Score(r))
    \/ /\ Score(o) = Score(r)
       /\ LinkIndex(r.reel_id) < LinkIndex(o.reel_id)

\* C13: the live search returns its reels by non-increasing engagement score,
\* reels of equal score in the order of their links, at most top_count of
\* them: the first top_count of the kept reels in that ranking.
C13_SortedStableTruncated ==
    (rpc = "returned" /\ ~mock_mode) =>
        /\ Len(result) = Min(top_count, Len(reels_data))
        /\ \A i \in 1..Len(result) :
              \E k \in 1..Len(reels_data) : reels_data[k] = result[i]
        /\ \A i, j \in 1..Len(result) : i < j => RanksBefore(result[i], result[j])
        /\ \A i \in 1..Len(result), k \in 1..Len(reels_data) :
              (\A j \in 1..Len(result) : result[j].reel_id # reels_data[k].reel_id)
                 => RanksBefore(result[i], reels_data[k])

\* three reels kept: the third link outranks the first two, which tie; the
\* second of the tie is cut off
C13_Witness ==
    /\ rpc = "returned"
    /\ ~mock_mode
    /\ top_count = 2
    /\ Len(reels_data) = 3
    /\ Len(result) = 2
    /\ result[1].reel_id = ReelIds[3]
    /\ result[2].reel_id = ReelIds[1]
    /\ Score(result[2]) = Score(reels_data[3])

\* the search has nothing to return
NothingToReturn ==
    IF mock_mode THEN top_count = 0 ELSE reels_data = <<>> \/ top_count = 0

C15_OldReelsExcluded ==
    /\ \A i \in 1..Len(unique_links) :
          unique_links[i].now < 0 - RecencyDays =>
             /\ ReelIds[i] \notin DOMAIN db
             /\ \A k \in 1..Len(reels_data) : reels_data[k].reel_id # ReelIds[i]
             /\ \A k \in 1..Len(result) : result[k].reel_id # ReelIds[i]
    /\ (rpc \in {"extracted", "scored", "skipped", "raised"} /\ page.now < 0 - RecencyDays) =>
          /\ rpc \in {"extracted", "skipped"}
          /\ reel_data = _extract_reel_data(page)

\* the first link is read 91 days back and has score 10 and ratio 5, the
\* second is fresh and is returned
C15_Witness ==
    /\ rpc = "returned"
    /\ ~mock_mode
    /\ Len(unique_links) = 2
    /\ unique_links[1].now = 0 - 91
    /\ unique_links[1].likeCount = 500
    /\ unique_links[1].viewCount = 5000
    /\ Len(result) = 1
    /\ result[1].reel_id = ReelIds[2]
    /\ DOMAIN db = {ReelIds[2]}

\* the records the links of the search yield
Extracted == [i \in 1..Len(unique_links) |-> _extract_reel_data(unique_links[i])]

\* C16: ranking and filtering the returned reels again, with the same
\* thresholds and top_count, returns the same sequence in the same order.
C16_Idempotent ==
    (rpc = "returned" /\ ~mock_mode) =>
        /\ result = RankAndFilter(Extracted, min_engagement, top_count)
        /\ RankAndFilter(result, min_engagement, top_count) = result

\* two reels of equal score are returned, in the order of their links
C16_Witness ==
    /\ rpc = "returned"
    /\ ~mock_mode
    /\ Len(result) = 2
    /\ Score(result[1]) = Score(result[2])
    /\ result[1].reel_id = ReelIds[1]
    /\ result[2].reel_id = ReelIds[2]

\* ---- the claims about get_reels_by_audience

\* the audience profile stored for the reel, when its audience_json loads
ProfileOf(id) == db[id].audience_json.value

\* the reels of the table whose audience_json loads
Parseable == {id \in DOMAIN db : db[id].audience_json.kind = "json"}

\* C17: the matcher returns no reel whose audience profile is absent or does
\* not parse, for every target and table, even when every other reel
\* matches; it skips such a reel and returns.
C17_NoProfileNotReturned ==
    mpc = "returned" =>
        \A i \in 1..Len(matched) : matched[i].reel_id \in Parseable

\* a reel without audience_json, one whose audience_json does not parse and
\* one that matches: only the last is returned
C17_Witness ==
    /\ mpc = "returned"
    /\ target = [age |-> "18-24"]
    /\ DOMAIN db = {ReelIds[1], ReelIds[2], ReelIds[3]}
    /\ \E a, b, c \in DOMAIN db :
          /\ db[a].audience_json = NullJson
          /\ db[b].audience_json = InvalidJson
          /\ c \in Parseable
          /\ Len(matched) = 1
          /\ matched[1].reel_id = c

\* the elements of a list
Range(s) == {s[i] : i \in DOMAIN s}

\* the profile satisfies the constraint the target puts on `key`: for
\* `interest` the value is one of the profile's interests, for every other
\* key the profile holds the same value
Satisfies(audience, key, value) ==
    IF key = "interest"
    THEN "interests" \in DOMAIN audience /\ value \in Range(audience.interests)
    ELSE key \in DOMAIN audience /\ audience[key] = value

\* C18: the match_score of every returned reel is the number of keys of the
\* target whose constraint the reel's audience profile satisfies; with
\* target {"age": "18-24"} and exactly one reel of age "18-24" the result is
\* that reel with match_score 1.
C18_ScoreCountsSatisfiedKeys ==
    mpc = "returned" =>
        /\ \A i \in 1..Len(matched) :
              matched[i].match_score
                 = Cardinality({key \in DOMAIN target :
                      Satisfies(ProfileOf(matched[i].reel_id), key, target[key])})
        /\ (target = [age |-> "18-24"]
               /\ Cardinality({id \in Parseable : ProfileOf(id).age = "18-24"}) = 1) =>
              /\ Len(matched) = 1
              /\ ProfileOf(matched[1].reel_id).age = "18-24"
              /\ matched[1].match_score = 1

\* C19: for a target with at least one key every returned reel has
\* match_score at least 1 and at most the number of keys of the target, and
\* the result has at most `limit` reels.
C19_ScoreAndLengthBounded ==
    (mpc = "returned" /\ DOMAIN target # {}) =>
        /\ \A i \in 1..Len(matched) :
              /\ matched[i].match_score >= 1
              /\ matched[i].match_score <= Cardinality(DOMAIN target)
        /\ Len(matched) <= limit

\* two reels match both keys of the target and the limit is 1
C19_Witness ==
    /\ mpc = "returned"
    /\ target = [age |-> "18-24", gender |-> "female"]
    /\ limit = 1
    /\ Cardinality({id \in Parseable :
          MatchScore(ProfileOf(id), target) = 2}) = 2
    /\ Len(matched) = 1
    /\ matched[1].match_score = 2

\* C20: with a target that gives `interest` the value v, a reel whose
\* audience profile lists v among its interests, at any index, satisfies the
\* constraint and is returned with match_score at least 1 (the limit
\* allowing).
C20_InterestAnywhereMatches ==
    (mpc = "returned" /\ "interest" \in DOMAIN target
        /\ Cardinality(DOMAIN db) <= limit) =>
        \A id \in Parseable :
            target.interest \in Range(ProfileOf(id).interests) =>
               \E i \in 1..Len(matched) :
                  /\ matched[i].reel_id = id
                  /\ matched[i].match_score >= 1

\* the view count of the reels of the ranking example: A has likes 10,
\* comments 2, views 100, B likes 500, comments 100, views 2000 (the reels
\* table has no column for it)
ExampleViews(reel) == IF reel.like_count = 10 THEN 100 ELSE 2000

\* their engagement score: 12 for A, 30 for B
ExampleScore(reel) ==
    EngagementRate(reel.like_count, reel.comment_count, ExampleViews(reel))

\* C21: the matcher's result is ordered by descending match_score, reels of
\* equal match_score by descending engagement score, reels equal on both in
\* pool order; pool [A, B], both of age "18-24", target {"age": "18-24"}
\* gives [B, A].
C21_RankedByScoreThenEngagement ==
    mpc = "returned" =>
        \A i, j \in 1..Len(matched) : i < j =>
            \/ matched[i].match_score > matched[j].match_score
            \/ /\ matched[i].match_score = matched[j].match_score
               /\ \/ ~GreaterEq(ExampleScore(matched[j]), ExampleScore(matched[i]))
                  \/ /\ ExampleScore(matched[i]) = ExampleScore(matched[j])
                     /\ matched[i].scraped_at > matched[j].scraped_at

\* C22: with an empty target and a table in which every reel has an audience
\* profile, the matcher returns the whole pool, up to limit, each reel with
\* match_score 0, and not an empty result.
C22_EmptyTargetMatchesAll ==
    (mpc = "returned" /\ DOMAIN target = {} /\ DOMAIN db # {}
        /\ Parseable = DOMAIN db) =>
        /\ Len(matched) = Min(limit, Cardinality(DOMAIN db))
        /\ \A i \in 1..Len(matched) : matched[i].match_score = 0

\* ---- the claim about extract_and_save_keywords

\* the word is a qualifying token of the text: longer than 3 characters, no
\* stop word, more than once among the words of the text
Qualifies(word, text) ==
    LET words == Split(Normalized(text))
    IN /\ Len(word) > 3
       /\ word \notin stop_words
       /\ Cardinality({i \in 1..Len(words) : words[i] = word}) > 1

\* C30: after any sequence of calls the keywords table has at most one row
\* for each (keyword, client_id), whose frequency is the number of calls of
\* that client whose text had the keyword as a qualifying token; a call
\* leaves the rows of other clients and other keywords as they were.
C30_OneRowPerKeywordCountsCalls ==
    /\ \A i, j \in 1..Len(keywords_table) :
          (keywords_table[i].keyword = keywords_table[j].keyword
             /\ keywords_table[i].client_id = keywords_table[j].client_id) => i = j
    /\ \A i \in 1..Len(keywords_table) :
          keywords_table[i].frequency
             = Cardinality({c \in 1..Len(calls) :
                   /\ calls[c].client_id = keywords_table[i].client_id
                   /\ Qualifies(keywords_table[i].keyword, calls[c].text)})
    /\ \A c \in 1..Len(calls), k \in 1..Len(ThemePool) :
          \A w \in {Split(Normalized(ThemePool[k]))[n] :
                      n \in 1..Len(Split(Normalized(ThemePool[k])))} :
              (calls[c].text = ThemePool[k] /\ Qualifies(w, ThemePool[k])) =>
                  \E i \in 1..Len(keywords_table) :
                      /\ keywords_table[i].keyword = w
                      /\ keywords_table[i].client_id = calls[c].client_id
                      /\ keywords_table[i].last_used >= c

\* ---- the claim about generate_scripts_from_reels

\* the number of reels a script was made from
FromReels == Min(2, Len(script_reels))

\* the place in the input list of the reel script i was made from
PlaceOf(i) ==
    CHOOSE p \in 1..Len(script_reels) :
        script_reels[p].reel_id = scripts[i].original_reel_id

\* C29: generate_scripts_from_reels returns exactly two scripts for every
\* list of reels: one for each of the up to two reels with the highest
\* like_count + comment_count, the higher first, then mock scripts up to
\* two; the two scripts differ in style and each has a section.
C29_TwoScriptsFromTopReels ==
    ret.kind = "returned" =>
        /\ Len(scripts) = 2
        /\ \A i \in 1..FromReels :
              /\ \E p \in 1..Len(script_reels) :
                    script_reels[p].reel_id = scripts[i].original_reel_id
              /\ \A p \in 1..Len(script_reels) :
                    \/ Interactions(script_reels[p]) <= Interactions(script_reels[PlaceOf(i)])
                    \/ \E j \in 1..(i - 1) : PlaceOf(j) = p
        /\ FromReels = 2 => PlaceOf(1) # PlaceOf(2)
        /\ \A i \in (FromReels + 1)..2 : scripts[i].original_reel_id = MockReelId
        /\ scripts[1].style # scripts[2].style
        /\ \A i \in 1..2 : scripts[i].sections # <<>>

\* three reels, the last two above the first: their scripts, the higher first
C29_Witness ==
    /\ ret.kind = "returned"
    /\ Len(script_reels) = 3
    /\ Interactions(script_reels[1]) = 12
    /\ Interactions(script_reels[2]) = 0
    /\ Interactions(script_reels[3]) = 600
    /\ scripts[1].original_reel_id = script_reels[3].reel_id
    /\ scripts[2].original_reel_id = script_reels[1].reel_id

\* ---- the claims about the reels table

\* the last call on the store was `op`, and it has changed `ret`
Called(op) == ret' # ret /\ ret'.op = op

\* C24: a record with a negative like or comment count is rejected: it is
\* never persisted, so no row of the table holds a negative count.
C24_NegativeCountsRejected ==
    \A id \in DOMAIN db : db[id].like_count >= 0 /\ db[id].comment_count >= 0

\* C25: once a reel is in the table, no later operation on it changes its
\* permalink, like_count, comment_count or scraped_at.
C25_ScrapedColumnsImmutable ==
    [][\A id \in DOMAIN db :
          /\ id \in DOMAIN db'
          /\ db'[id].permalink = db[id].permalink
          /\ db'[id].like_count = db[id].like_count
          /\ db'[id].comment_count = db[id].comment_count
          /\ db'[id].scraped_at = db[id].scraped_at]_vars

\* C27: a transcript or a profile the table holds for a reel is never reset
\* to absent: the operation that follows download_and_transcribe or
\* analyze_audience, a save of the same reel included, leaves them in place.
C27_TranscriptAndProfileKept ==
    [][(ret.kind = "returned" /\ ret.id \in DOMAIN db) =>
          /\ (ret.op = "analyze_audience" /\ db[ret.id].audience_json.kind # "NULL")
                => db'[ret.id].audience_json.kind # "NULL"
          /\ (ret.op = "download_and_transcribe" /\ db[ret.id].transcript # Null)
                => db'[ret.id].transcript # Null]_vars

\* C28: analyze_audience on a reel whose stored audience_json is a valid
\* profile returns that profile and leaves the table as it was; on an id
\* the table does not hold it raises ValueError and leaves the table as it
\* was.
C28_StoredProfileReturned ==
    [][Called("analyze_audience") =>
          /\ (ret'.id \in DOMAIN db /\ db[ret'.id].audience_json.kind = "json") =>
                /\ ret'.kind = "returned"
                /\ ret'.value = db[ret'.id].audience_json.value
                /\ db' = db
          /\ ret'.id \notin DOMAIN db =>
                /\ ret'.kind = "raised"
                /\ ret'.value.error = "ValueError"
                /\ db' = db]_vars

\* ---- the claim about the classifier under other operations

C23_NoMatchGivesDefaultScripts ==
    (ret.kind # "none" /\ ret.op \in {"generate_scripts", "generate_auto_script"}
        /\ matched = <<>>) =>
            /\ ret.kind = "returned"
            /\ Len(scripts) = 2
            /\ \A i \in 1..2 : scripts[i].sections # <<>>
====
